---- MODULE Spec2Model ----
(***************************************************************************)
(* Auto-Guard dashboard: the synthetic traffic / log generators            *)
(* (src/src/utils/dataGenerators.ts) and the timers that drive them        *)
(* (App, LogTable, Earth, ResourceMonitoring, Statistics).                 *)
(*                                                                         *)
(* Time is in milliseconds.  Math.random() is a draw d in 0..RandMax-1     *)
(* standing for the real number d / RandMax; a callback reads its draws    *)
(* from a stream (a finite sequence read cyclically).                      *)
(***************************************************************************)
EXTENDS Integers, Sequences, FiniteSets, TLC

VARIABLES
  phase,        \* "rendered" (first render done, effects pending), "mounted", "unmounted"
  now,          \* the clock, ms since the first render
  seed,         \* the seed of the run's random source
  trafficData,  \* App: useState trafficData
  dirty,        \* App state changed, LogTable's effect not yet re-run
  trafficTimer, \* App: setInterval(updateTrafficData, 2000)
  logTimer,     \* LogTable: setInterval(..., 1000) with the trafficData it closed over
  flowTimer,    \* Earth: setInterval(..., 5000)
  resourceTimer,\* ResourceMonitoring: setInterval(..., 2000)
  statsTimer,   \* Statistics: setInterval(..., 3000)
  logs,         \* LogTable: useState logs
  flowData,     \* Earth: useState flowData, each pair object with the time it was created
  resources,    \* ResourceMonitoring: useState resources (values in 1/RandMax units)
  attackData,   \* Statistics: useState attackData (values in 1/(2*RandMax) units)
  countryData,  \* Statistics: useState trafficData (values in 1/(2*RandMax) units)
  produced,     \* history: every sample a traffic update appended, in order
  lastFed,      \* history: what the last log tick passed to generateLogData
  lastMerge,    \* history: the last log tick's previous history and new entries
  expansion,    \* history: per live sample, log ticks fed with it and entries merged
  lastLogTick,  \* history: time of the last log tick, -1 before the first
  logGap,       \* history: time between the last two log ticks, 0 before the second
  unmountedAt,  \* history: time of the unmount, -1 while mounted
  inboundChartInstance,  \* TrafficGraph: useRef inboundChartInstance (.current)
  outboundChartInstance, \* TrafficGraph: useRef outboundChartInstance (.current)
  liveCharts,   \* the Chart instances created and not destroyed
  synSamples,   \* generateLogData call: argument trafficData
  synExisting,  \* generateLogData call: argument existingLogs
  synRnd,       \* generateLogData call: the stream Math.random() reads
  synResult,    \* generateLogData call: the returned array
  synDone,      \* generateLogData call: has returned
  genCount,     \* generateTrafficData call: argument count, Null when omitted
  genNow,       \* generator call: the time new Date() returns
  genRnd,       \* generator call: the stream Math.random() reads
  genResult,    \* generator call: the returned array
  genDone       \* generator call: "no", or the generator that has returned

dashVars == <<phase, now, seed, trafficData, dirty, trafficTimer, logTimer, flowTimer,
              resourceTimer, statsTimer, logs, flowData, resources, attackData,
              countryData, produced, lastFed, lastMerge, expansion, lastLogTick,
              logGap, unmountedAt, inboundChartInstance, outboundChartInstance,
              liveCharts>>
chartVars == <<inboundChartInstance, outboundChartInstance, liveCharts>>
synVars == <<synSamples, synExisting, synRnd, synResult, synDone>>
genVars == <<genCount, genNow, genRnd, genResult, genDone>>
callVars == <<synVars, genVars>>
vars == <<dashVars, callVars>>

----------------------------------------------------------------------------
(* Bounds of the model *)

RandMax == 10
MountTime == 60000
MaxClock == 64
Linger == 6
UnmountBy == 12
NumSeeds == 2
MaxSamples == 2
MaxCount == 3
DriftSpan == 8

----------------------------------------------------------------------------
(* Program constants *)

DefaultCount == 30
SampleSpacing == 2000
VolumeRange == 30
WindowKeep == 29
LogLimit == 100
TrafficPeriod == 2000
LogPeriod == 1000
FlowPeriod == 5000
ResourcePeriod == 2000
StatsPeriod == 3000
FlowCount == 50
PortRange == 65536
OctetRange == 256
TrafficVolumeRange == 1000
ResourceSwing == 10
StatsSwing == 5
NoTime == 0

\* null / undefined where a record is expected
Null == [null |-> TRUE]
\* an array handed to a parameter that may also receive null / undefined
Some(arr) == [null |-> FALSE, value |-> arr]

Min(a, b) == IF a < b THEN a ELSE b
Max(a, b) == IF a > b THEN a ELSE b

\* Array.prototype.slice(-n)
SliceLast(s, n) == SubSeq(s, Max(1, Len(s) - n + 1), Len(s))
\* Array.prototype.slice(0, n)
SliceFirst(s, n) == SubSeq(s, 1, Min(n, Len(s)))

\* the j-th Math.random() of a callback reading stream rnd (j = 1, 2, ...)
Rand(rnd, j) == rnd[((j - 1) % Len(rnd)) + 1]
\* Math.floor(Math.random() * n) for the draw d
RandInt(d, n) == (d * n) \div RandMax

----------------------------------------------------------------------------
(* dataGenerators.ts *)

protocols == <<"TCP", "UDP", "HTTP", "HTTPS", "FTP", "SMTP", "DNS">>

\* A type string is the sequence of its parts, so that a prefix test and an
\* equality test on it differ as they do on the source's strings.
TypeNormal == <<"Normal">>
TypeNew == <<"NewPattern">>
maliciousTypes ==
  << <<"Malicious", "(DDoS)">>, <<"Malicious", "(SQL Injection)">>,
     <<"Malicious", "(XSS)">>, <<"Malicious", "(Port Scan)">>,
     <<"Malicious", "(Brute Force)">>, <<"Malicious", "(Malware)">>,
     <<"Malicious", "(Phishing)">>, <<"Malicious", "(Command Injection)">>,
     <<"Malicious", "(File Inclusion)">> >>

\* line 29: count = 30 when the argument is omitted
CountOrDefault(count) == IF count = Null THEN DefaultCount ELSE count.value

generateTrafficDataLate(count, nowT, rnd) ==
  [i \in 1..Max(0, count) |->
     [time |-> nowT - (count - i + 1) * SampleSpacing,
      inbound |-> RandInt(Rand(rnd, 2 * i - 1), VolumeRange),
      outbound |-> RandInt(Rand(rnd, 2 * i), VolumeRange)]]

\* the generator drawing volumes from twice the range
generateTrafficDataWide(count, nowT, rnd) ==
  [i \in 1..Max(0, count) |->
     [time |-> nowT - (count - i) * SampleSpacing,
      inbound |-> RandInt(Rand(rnd, 2 * i - 1), 2 * VolumeRange),
      outbound |-> RandInt(Rand(rnd, 2 * i), 2 * VolumeRange)]]

\* lines 30-41, count being the parameter's value
generateTrafficData(count, nowT, rnd) ==
  [i \in 1..Max(0, count) |->
     [time |-> nowT - (count - i) * SampleSpacing,
      inbound |-> RandInt(Rand(rnd, 2 * i - 1), VolumeRange),
      outbound |-> RandInt(Rand(rnd, 2 * i), VolumeRange)]]

\* x || 0, x a number
OrZero(x) == IF x = 0 THEN 0 ELSE x
\* time || new Date(); NoTime stands for a missing time (a Date is never falsy)
OrNow(time, nowT) == IF time = NoTime THEN nowT ELSE time
\* existingLogs || [], after the default parameter [] for undefined
OrEmpty(existingLogs) == IF existingLogs = Null THEN <<>> ELSE existingLogs.value

\* the type drawn with the thresholds included in the lower class (<=)
DrawTypeInclusive(rnd, j) ==
  LET randomValue == Rand(rnd, j) IN
  IF randomValue * 10 <= 6 * RandMax
    THEN [type |-> TypeNormal, used |-> 1]
    ELSE IF randomValue * 10 <= 9 * RandMax
      THEN [type |-> maliciousTypes[RandInt(Rand(rnd, j + 1), Len(maliciousTypes)) + 1],
            used |-> 2]
      ELSE [type |-> TypeNew, used |-> 1]

\* lines 70-78: the type drawn at draw j, and the number of draws it took
DrawType(rnd, j) ==
  LET randomValue == Rand(rnd, j) IN
  IF randomValue * 10 < 6 * RandMax
    THEN [type |-> TypeNormal, used |-> 1]
    ELSE IF randomValue * 10 < 9 * RandMax
      THEN [type |-> maliciousTypes[RandInt(Rand(rnd, j + 1), Len(maliciousTypes)) + 1],
            used |-> 2]
      ELSE [type |-> TypeNew, used |-> 1]

\* lines 80-93: the log pushed for `traffic`, its draws starting at j
MakeLog(traffic, nowT, rnd, j) ==
  LET t == DrawType(rnd, j)
      k == j + t.used
  IN [log |->
        [timestamp |-> OrNow(traffic.time, nowT),
         sourceIP |-> <<RandInt(Rand(rnd, k), OctetRange), RandInt(Rand(rnd, k + 1), OctetRange),
                        RandInt(Rand(rnd, k + 2), OctetRange), RandInt(Rand(rnd, k + 3), OctetRange)>>,
         sourcePort |-> RandInt(Rand(rnd, k + 4), PortRange),
         destinationIP |-> <<RandInt(Rand(rnd, k + 5), OctetRange), RandInt(Rand(rnd, k + 6), OctetRange),
                             RandInt(Rand(rnd, k + 7), OctetRange), RandInt(Rand(rnd, k + 8), OctetRange)>>,
         destinationPort |-> RandInt(Rand(rnd, k + 9), PortRange),
         protocol |-> protocols[RandInt(Rand(rnd, k + 10), Len(protocols)) + 1],
         type |-> t.type,
         trafficVolume |-> RandInt(Rand(rnd, k + 11), TrafficVolumeRange)],
      next |-> k + 12]

\* lines 68-94: the iterations lo .. hi - 1 of the inner loop (lo < hi), the
\* draws starting at j.  The range is run as its first half followed by its
\* second half, which reads its draws where the first half stopped: the same
\* iterations in the same order, with an evaluation depth of log2(hi - lo).
RECURSIVE LogRange(_, _, _, _, _, _)
LogRange(traffic, nowT, rnd, lo, hi, j) ==
  IF hi - lo = 1
    THEN LET m == MakeLog(traffic, nowT, rnd, j)
         IN [logs |-> <<m.log>>, next |-> m.next]
    ELSE LET mid == lo + (hi - lo) \div 2
             first == LogRange(traffic, nowT, rnd, lo, mid, j)
             second == LogRange(traffic, nowT, rnd, mid, hi, first.next)
         IN [logs |-> first.logs \o second.logs, next |-> second.next]

\* the inner loop running one iteration too many (i <= totalTraffic)
LogLoopOffByOne(traffic, totalTraffic, nowT, rnd, i, j, built) ==
  IF i <= totalTraffic
    THEN LET r == LogRange(traffic, nowT, rnd, i, totalTraffic + 1, j)
         IN [logs |-> built \o r.logs, next |-> r.next]
    ELSE [logs |-> built, next |-> j]

\* lines 68-94: the inner loop, from iteration i with the logs built so far
LogLoop(traffic, totalTraffic, nowT, rnd, i, j, built) ==
  IF i < totalTraffic
    THEN LET r == LogRange(traffic, nowT, rnd, i, totalTraffic, j)
         IN [logs |-> built \o r.logs, next |-> r.next]
    ELSE [logs |-> built, next |-> j]

\* the total counting the inbound volume only
TotalTrafficInboundOnly(traffic) == OrZero(traffic.inbound)

\* line 65
TotalTraffic(traffic) == OrZero(traffic.inbound) + OrZero(traffic.outbound)

\* the reduce giving up at a null element instead of skipping it
RECURSIVE ReduceLogsStopAtNull(_, _, _, _, _, _)
ReduceLogsStopAtNull(data, nowT, rnd, n, j, acc) ==
  IF n > Len(data) THEN acc
  ELSE IF data[n] = Null THEN acc
  ELSE LET r == LogLoop(data[n], TotalTraffic(data[n]), nowT, rnd, 0, j, <<>>)
       IN ReduceLogsStopAtNull(data, nowT, rnd, n + 1, r.next, acc \o r.logs)

\* lines 62-97: the reduce, from element n with the accumulator acc
RECURSIVE ReduceLogs(_, _, _, _, _, _)
ReduceLogs(data, nowT, rnd, n, j, acc) ==
  IF n > Len(data) THEN acc
  ELSE IF data[n] = Null THEN ReduceLogs(data, nowT, rnd, n + 1, j, acc)
  ELSE LET r == LogLoop(data[n], TotalTraffic(data[n]), nowT, rnd, 0, j, <<>>)
       IN ReduceLogs(data, nowT, rnd, n + 1, r.next, acc \o r.logs)

\* a merge that forgets the existing entries
MergeLogsNewOnly(existingLogs, newLogs) == newLogs

\* line 99: the returned array
MergeLogs(existingLogs, newLogs) == existingLogs \o newLogs

generateLogData(data, existingLogs, nowT, rnd) ==
  MergeLogs(OrEmpty(existingLogs), ReduceLogs(data, nowT, rnd, 1, 1, <<>>))

\* line 104
countries == <<"KR", "US", "CN", "JP", "UK", "DE", "FR", "IN", "BR", "AU">>

\* the generator with its loop one iteration short
generateFlowDataShort(rnd) ==
  [i \in 1..(FlowCount - 1) |->
     [start |-> countries[RandInt(Rand(rnd, 2 * i - 1), Len(countries)) + 1],
      end |-> countries[RandInt(Rand(rnd, 2 * i), Len(countries)) + 1]]]

\* lines 103-114
generateFlowData(rnd) ==
  [i \in 1..FlowCount |->
     [start |-> countries[RandInt(Rand(rnd, 2 * i - 1), Len(countries)) + 1],
      end |-> countries[RandInt(Rand(rnd, 2 * i), Len(countries)) + 1]]]

----------------------------------------------------------------------------
(* The random source of a run: the stream read by the callback of `site`   *)
(* that runs at time t.                                                    *)

StreamLen == 7
TrafficSite == 1
LogSite == 2
FlowSite == 3
ResourceSite == 4
StatsSite == 5

\* The resource monitor's draws change only every DriftSpan seconds, so that
\* its metrics drift as far as an end of their range within a run.
Stream(sd, site, t) ==
  LET s == (t - MountTime) \div LogPeriod
      c == IF site = ResourceSite THEN s \div DriftSpan ELSE s
  IN <<>> \o [i \in 1..StreamLen |->
        (5 * c * c + 3 * (sd + 1) * (c + site) + i * (c + 1) + site * i * i) % RandMax]

----------------------------------------------------------------------------
(* App.tsx *)

\* lines 24-29: the validity filter's predicate
IsValidSample(data) == data # Null

\* the updater keeping 30 old samples (slice(-30)) before appending
AppUpdaterKeep30(prevData, newData) ==
  SelectSeq(SliceLast(prevData, WindowKeep + 1) \o <<newData>>, IsValidSample)

\* the updater cutting the window at its end, so that the new sample is lost
AppUpdaterDropNewest(prevData, newData) ==
  SelectSeq(SliceFirst(prevData \o <<newData>>, WindowKeep + 1), IsValidSample)

\* lines 21-31: the setTrafficData updater
AppUpdater(prevData, newData) ==
  SelectSeq(SliceLast(prevData, WindowKeep) \o <<newData>>, IsValidSample)

\* lines 18-33: updateTrafficData; newData is undefined when nothing was generated
NewData(nowT, rnd) ==
  LET data == generateTrafficData(CountOrDefault(Null), nowT, rnd)
  IN IF Len(data) > 0 THEN data[1] ELSE Null

----------------------------------------------------------------------------
(* LogTable (src/unnamed/part_001) *)

\* the updater without its truncation
LogTableUpdaterNoSlice(prevLogs, newLogs) ==
  IF Len(newLogs) > 0 THEN newLogs \o prevLogs ELSE prevLogs

\* the updater truncating at the wrong end (slice(-100))
LogTableUpdaterDropNewest(prevLogs, newLogs) ==
  IF Len(newLogs) > 0 THEN SliceLast(newLogs \o prevLogs, LogLimit) ELSE prevLogs

\* the updater putting the new entries last
LogTableUpdaterAppend(prevLogs, newLogs) ==
  IF Len(newLogs) > 0 THEN SliceFirst(prevLogs \o newLogs, LogLimit) ELSE prevLogs

\* the updater returning an empty history when there is nothing new
LogTableUpdaterClearOnEmpty(prevLogs, newLogs) ==
  IF Len(newLogs) > 0 THEN SliceFirst(newLogs \o prevLogs, LogLimit) ELSE <<>>

\* lines 186-188: the value the setLogs updater returns
LogTableUpdater(prevLogs, newLogs) ==
  IF Len(newLogs) > 0 THEN SliceFirst(newLogs \o prevLogs, LogLimit) ELSE prevLogs

\* String.prototype.startsWith on a type
StartsWith(type, prefix) ==
  Len(type) >= Len(prefix) /\ SubSeq(type, 1, Len(prefix)) = prefix

\* the malicious filter testing equality, as getTypeColor does
FilterSelectsByEquality(log, filter) ==
  IF log = Null THEN FALSE
  ELSE IF filter = "all" THEN TRUE
  ELSE IF filter = "normal" THEN log.type = TypeNormal
  ELSE IF filter = "malicious" THEN log.type = <<"Malicious">>
  ELSE IF filter = "new" THEN log.type = TypeNew
  ELSE FALSE

\* lines 208-213: the predicate handed to logs.filter
FilterSelects(log, filter) ==
  IF log = Null THEN FALSE
  ELSE IF filter = "all" THEN TRUE
  ELSE IF filter = "normal" THEN log.type = TypeNormal
  ELSE IF filter = "malicious" THEN StartsWith(log.type, <<"Malicious">>)
  ELSE IF filter = "new" THEN log.type = TypeNew
  ELSE FALSE

\* lines 204-215, for the history `history` and the filter state `filter`
getFilteredLogs(history, filter) ==
  IF Len(history) = 0 THEN <<>>
  ELSE SelectSeq(history, LAMBDA log : FilterSelects(log, filter))

\* lines 218-223
getTypeColor(type) ==
  IF type = TypeNormal THEN "text-green-600"
  ELSE IF type = <<"Malicious">> THEN "text-red-600"
  ELSE IF type = TypeNew THEN "text-yellow-600"
  ELSE "text-gray-600"

\* the callback feeding the oldest sample of the window (slice(0, 1))
FedSamplesOldest(closure) == SliceFirst(closure, 1)

\* line 184: what the interval callback feeds the synthesizer
FedSamples(closure) == SliceLast(closure, 1)

----------------------------------------------------------------------------
(* Timers *)

Cleared == [armed |-> FALSE, due |-> 0]
\* setInterval(f, period) at time t; an armed interval fires whether or not
\* the component that armed it is still mounted
Armed(t, period) == [armed |-> TRUE, due |-> t + period]
\* the interval has fired and is scheduled again
Rearm(timer, period) == [timer EXCEPT !.due = @ + period]
Due(timer) == timer.armed /\ timer.due <= now

\* the cleanup functions the effects return
AppCleanup(timer) == Cleared
\* an effect that returns no cleanup
LogTableCleanupMissing(timer) == timer
LogTableCleanup(timer) == [armed |-> FALSE, due |-> 0, closure |-> <<>>]
EarthCleanup(timer) == Cleared
ResourceCleanup(timer) == Cleared
StatisticsCleanup(timer) == Cleared

\* LogTable lines 179-194: the effect body
LogTableEffect(t, data) == [armed |-> TRUE, due |-> t + LogPeriod, closure |-> data]

----------------------------------------------------------------------------
(* ResourceMonitoring.tsx, Statistics.tsx *)

InitialResources ==
  << [name |-> "cpu", value |-> 45 * RandMax, maxValue |-> 100, unit |-> "%"],
     [name |-> "cpuTemp", value |-> 55 * RandMax, maxValue |-> 100, unit |-> "C"],
     [name |-> "fan", value |-> 3500 * RandMax, maxValue |-> 3500, unit |-> "RPM"],
     [name |-> "memory", value |-> 60 * RandMax, maxValue |-> 100, unit |-> "%"],
     [name |-> "memoryTemp", value |-> 40 * RandMax, maxValue |-> 100, unit |-> "C"],
     [name |-> "bandwidth", value |-> 75 * RandMax, maxValue |-> 100, unit |-> "Mbps"] >>

\* the updater without Math.min / Math.max
ResourceUpdaterNoClamp(prevResources, rnd) ==
  [i \in 1..Len(prevResources) |->
     [prevResources[i] EXCEPT !.value =
        @ + ResourceSwing * Rand(rnd, i) - (ResourceSwing * RandMax) \div 2]]

\* ResourceMonitoring lines 168-177; value is kept in units of 1/RandMax
ResourceUpdater(prevResources, rnd) ==
  [i \in 1..Len(prevResources) |->
     [prevResources[i] EXCEPT !.value =
        Min(prevResources[i].maxValue * RandMax,
            Max(0, @ + ResourceSwing * Rand(rnd, i) - (ResourceSwing * RandMax) \div 2))]]

InitialAttackData ==
  << [name |-> "normal", value |-> 60 * 2 * RandMax],
     [name |-> "malicious", value |-> 30 * 2 * RandMax],
     [name |-> "new", value |-> 10 * 2 * RandMax] >>

InitialCountryData ==
  << [name |-> "US", value |-> 35 * 2 * RandMax], [name |-> "CN", value |-> 25 * 2 * RandMax],
     [name |-> "KR", value |-> 20 * 2 * RandMax], [name |-> "etc", value |-> 20 * 2 * RandMax] >>

\* Statistics lines 47-61; value is kept in units of 1/(2*RandMax); the draws
\* of the callback start at `first`
StatsUpdater(prevData, rnd, first) ==
  [i \in 1..Len(prevData) |->
     [prevData[i] EXCEPT !.value =
        Max(0, @ + 2 * StatsSwing * Rand(rnd, first + i - 1) - StatsSwing * RandMax)]]

----------------------------------------------------------------------------
(* The dashboard *)

NoFeed == [at |-> -1, samples |-> <<>>, latest |-> <<>>]
NoMerge == [at |-> -1, prev |-> <<>>, new |-> <<>>, result |-> <<>>]

----------------------------------------------------------------------------
(* TrafficGraph (src/src/components/Statistics.tsx) *)

\* lines 305-306: the series drawn from the window
ValidInboundData(data) == <<>> \o [i \in 1..Len(data) |-> data[i].inbound]
ValidOutboundData(data) == <<>> \o [i \in 1..Len(data) |-> data[i].outbound]
\* lines 220, 228: the labels
ChartLabels(data) == <<>> \o [i \in 1..Len(data) |-> data[i].time]

\* lines 216-296: createOrUpdateChart on a mounted canvas; a Chart created at
\* time t on `canvas` is told from the other instances by (canvas, t)
createOrUpdateChart(canvas, chartInstance, windowData, data, t) ==
  IF chartInstance # Null
    THEN [chartInstance EXCEPT !.labels = ChartLabels(windowData), !.data = data]
    ELSE [canvas |-> canvas, id |-> t, labels |-> ChartLabels(windowData), data |-> data]

\* lines 303-309: the effect's body
TrafficGraphEffect(canvas, chartInstance, windowData, data, t) ==
  IF Len(windowData) > 0
    THEN createOrUpdateChart(canvas, chartInstance, windowData, data, t)
    ELSE chartInstance

\* lines 312-321: the effect's cleanup, for one chart
TrafficGraphCleanup(chartInstance) == Null

\* the instances alive once `old` went through `cleaned` to `current`
Destroyed(old, cleaned) == IF old # Null /\ cleaned = Null THEN {[canvas |-> old.canvas, id |-> old.id]} ELSE {}
Created(cleaned, current) ==
  IF current # Null /\ (cleaned = Null \/ cleaned.id # current.id)
    THEN {[canvas |-> current.canvas, id |-> current.id]} ELSE {}

\* the effect run at mount or re-run after a change of trafficData: the
\* previous run's cleanup (none at mount), then the body
RunTrafficGraphEffect(cleanup) ==
  LET inClean == IF cleanup THEN TrafficGraphCleanup(inboundChartInstance)
                 ELSE inboundChartInstance
      outClean == IF cleanup THEN TrafficGraphCleanup(outboundChartInstance)
                  ELSE outboundChartInstance
  IN /\ inboundChartInstance' =
          TrafficGraphEffect("inbound", inClean, trafficData, ValidInboundData(trafficData), now)
     /\ outboundChartInstance' =
          TrafficGraphEffect("outbound", outClean, trafficData, ValidOutboundData(trafficData), now)
     /\ liveCharts' =
          ((liveCharts \ (Destroyed(inboundChartInstance, inClean)
                          \cup Destroyed(outboundChartInstance, outClean)))
           \cup Created(inClean, inboundChartInstance')
           \cup Created(outClean, outboundChartInstance'))

DashInit ==
  /\ phase = "rendered"
  /\ now = MountTime
  /\ seed \in 0..(NumSeeds - 1)
  /\ trafficData = <<>>
  /\ dirty = FALSE
  /\ trafficTimer = Cleared
  /\ logTimer = LogTableCleanup(Cleared)
  /\ flowTimer = Cleared
  /\ resourceTimer = Cleared
  /\ statsTimer = Cleared
  /\ logs = <<>>
  /\ flowData = <<>>
  /\ resources = InitialResources
  /\ attackData = InitialAttackData
  /\ countryData = InitialCountryData
  /\ produced = <<>>
  /\ lastFed = NoFeed
  /\ lastMerge = NoMerge
  /\ expansion = <<>>
  /\ lastLogTick = -1
  /\ logGap = 0
  /\ unmountedAt = -1
  /\ inboundChartInstance = Null
  /\ outboundChartInstance = Null
  /\ liveCharts = {}

SynIdle ==
  /\ synSamples = <<>>
  /\ synExisting = Null
  /\ synRnd = <<0>>
  /\ synResult = <<>>
  /\ synDone = FALSE

GenIdle ==
  /\ genCount = Null
  /\ genNow = MountTime
  /\ genRnd = <<0>>
  /\ genResult = <<>>
  /\ genDone = "no"

Init == DashInit /\ SynIdle /\ GenIdle

\* App lines 18-33 as run at the current time, with the history of produced samples
UpdateTrafficData ==
  LET newData == NewData(now, Stream(seed, TrafficSite, now))
  IN IF newData # Null
       THEN /\ trafficData' = AppUpdater(trafficData, newData)
            /\ dirty' = TRUE
            /\ produced' = Append(produced, newData)
            /\ expansion' = Append(expansion,
                 [time |-> newData.time, volume |-> newData.inbound + newData.outbound,
                  feeds |-> 0, entries |-> 0])
       ELSE UNCHANGED <<trafficData, dirty, produced, expansion>>

\* the effects of the first commit, children before their parent
Mount ==
  /\ phase = "rendered"
  /\ phase' = "mounted"
  /\ logTimer' = LogTableEffect(now, trafficData)
  /\ resourceTimer' = Armed(now, ResourcePeriod)
  /\ statsTimer' = Armed(now, StatsPeriod)
  /\ flowTimer' = Armed(now, FlowPeriod)
  /\ UpdateTrafficData
  /\ trafficTimer' = Armed(now, TrafficPeriod)
  /\ RunTrafficGraphEffect(FALSE)
  /\ UNCHANGED <<now, seed, logs, flowData, resources, attackData, countryData,
                 lastFed, lastMerge, lastLogTick, logGap, unmountedAt, callVars>>

\* App line 37: the 2 s interval fires
TrafficTick ==
  /\ Due(trafficTimer)
  /\ UpdateTrafficData
  /\ trafficTimer' = Rearm(trafficTimer, TrafficPeriod)
  /\ UNCHANGED <<phase, now, seed, logTimer, flowTimer, resourceTimer, statsTimer, logs,
                 flowData, resources, attackData, countryData, lastFed, lastMerge,
                 lastLogTick, logGap, unmountedAt, callVars, chartVars>>

\* the samples a live interval callback can still be fed: the window's last
\* one and the last one of the window the armed log interval closed over
Live(exp, data, closure) ==
  SelectSeq(exp, LAMBDA e :
     \/ (Len(data) > 0 /\ e.time = data[Len(data)].time)
     \/ (Len(closure) > 0 /\ e.time = closure[Len(closure)].time))

\* the re-render after setTrafficData: LogTable's effect (deps [trafficData])
\* and TrafficGraph's effect (deps [trafficData, createOrUpdateChart]) are
\* cleaned up and run again
Commit ==
  /\ phase = "mounted"
  /\ dirty
  /\ dirty' = FALSE
  /\ logTimer' = LogTableEffect(now, trafficData)
  /\ expansion' = Live(expansion, trafficData, trafficData)
  /\ RunTrafficGraphEffect(TRUE)
  /\ UNCHANGED <<phase, now, seed, trafficData, trafficTimer, flowTimer, resourceTimer,
                 statsTimer, logs, flowData, resources, attackData, countryData,
                 produced, lastFed, lastMerge, lastLogTick, logGap, unmountedAt, callVars>>

\* LogTable lines 181-190: the 1 s interval fires
LogTick ==
  /\ Due(logTimer)
  /\ LET fed == FedSamples(logTimer.closure)
         newLogs == generateLogData(fed, Some(<<>>), now, Stream(seed, LogSite, now))
     IN /\ logs' = LogTableUpdater(logs, newLogs)
        /\ lastFed' = [at |-> now, samples |-> fed, latest |-> SliceLast(trafficData, 1)]
        /\ lastMerge' = [at |-> now, prev |-> logs, new |-> newLogs, result |-> logs']
        /\ expansion' =
             [i \in 1..Len(expansion) |->
                IF Len(fed) > 0 /\ expansion[i].time = fed[1].time
                  THEN [expansion[i] EXCEPT !.feeds = @ + 1, !.entries = @ + Len(newLogs)]
                  ELSE expansion[i]]
  /\ logTimer' = [logTimer EXCEPT !.due = @ + LogPeriod]
  /\ logGap' = IF lastLogTick < 0 THEN 0 ELSE now - lastLogTick
  /\ lastLogTick' = now
  /\ UNCHANGED <<phase, now, seed, trafficData, dirty, trafficTimer, flowTimer,
                 resourceTimer, statsTimer, flowData, resources, attackData,
                 countryData, produced, unmountedAt, callVars, chartVars>>

\* the objects a generateFlowData call at time t creates: a pair object is
\* told from an equal pair of an earlier call by the time of its creation
FlowObjects(flows, t) ==
  <<>> \o [i \in 1..Len(flows) |->
             [start |-> flows[i].start, end |-> flows[i].end, born |-> t]]

\* an updater that keeps the previous pairs
EarthUpdaterMerge(prevFlowData, newFlowData) == prevFlowData \o newFlowData

\* Earth line 78: the value setFlowData receives (newFlowData || [])
EarthUpdater(prevFlowData, newFlowData) == newFlowData

\* Earth lines 76-79: the 5 s interval fires
FlowTick ==
  /\ Due(flowTimer)
  /\ flowData' = EarthUpdater(flowData,
                   FlowObjects(generateFlowData(Stream(seed, FlowSite, now)), now))
  /\ flowTimer' = Rearm(flowTimer, FlowPeriod)
  /\ UNCHANGED <<phase, now, seed, trafficData, dirty, trafficTimer, logTimer,
                 resourceTimer, statsTimer, logs, resources, attackData, countryData,
                 produced, lastFed, lastMerge, expansion, lastLogTick, logGap,
                 unmountedAt, callVars, chartVars>>

\* ResourceMonitoring lines 166-178: the 2 s interval fires
ResourceTick ==
  /\ Due(resourceTimer)
  /\ resources' = ResourceUpdater(resources, Stream(seed, ResourceSite, now))
  /\ resourceTimer' = Rearm(resourceTimer, ResourcePeriod)
  /\ UNCHANGED <<phase, now, seed, trafficData, dirty, trafficTimer, logTimer, flowTimer,
                 statsTimer, logs, flowData, attackData, countryData, produced,
                 lastFed, lastMerge, expansion, lastLogTick, logGap, unmountedAt, callVars, chartVars>>

\* Statistics lines 45-62: the 3 s interval fires
StatsTick ==
  /\ Due(statsTimer)
  /\ attackData' = StatsUpdater(attackData, Stream(seed, StatsSite, now), 1)
  /\ countryData' = StatsUpdater(countryData, Stream(seed, StatsSite, now),
                                 Len(attackData) + 1)
  /\ statsTimer' = Rearm(statsTimer, StatsPeriod)
  /\ UNCHANGED <<phase, now, seed, trafficData, dirty, trafficTimer, logTimer, flowTimer,
                 resourceTimer, logs, flowData, resources, produced, lastFed,
                 lastMerge, expansion, lastLogTick, logGap, unmountedAt, callVars, chartVars>>

\* teardown (within the first UnmountBy seconds): every effect's cleanup runs
Unmount ==
  /\ phase = "mounted"
  /\ now <= MountTime + UnmountBy * LogPeriod
  /\ phase' = "unmounted"
  /\ trafficTimer' = AppCleanup(trafficTimer)
  /\ logTimer' = LogTableCleanup(logTimer)
  /\ flowTimer' = EarthCleanup(flowTimer)
  /\ resourceTimer' = ResourceCleanup(resourceTimer)
  /\ statsTimer' = StatisticsCleanup(statsTimer)
  /\ unmountedAt' = now
  /\ inboundChartInstance' = TrafficGraphCleanup(inboundChartInstance)
  /\ outboundChartInstance' = TrafficGraphCleanup(outboundChartInstance)
  /\ liveCharts' = liveCharts \ (Destroyed(inboundChartInstance, inboundChartInstance')
                                 \cup Destroyed(outboundChartInstance, outboundChartInstance'))
  /\ UNCHANGED <<now, seed, trafficData, dirty, logs, flowData, resources, attackData,
                 countryData, produced, lastFed, lastMerge, expansion, lastLogTick,
                 logGap, callVars>>

AnyDue ==
  Due(trafficTimer) \/ Due(logTimer) \/ Due(flowTimer) \/ Due(resourceTimer)
    \/ Due(statsTimer)

\* time passes: a due callback and a pending re-render run before the clock
\* reaches the next timer period
Advance ==
  /\ ~AnyDue
  /\ \/ /\ phase = "mounted"
        /\ ~dirty
        /\ now < MountTime + MaxClock * LogPeriod
     \/ /\ phase = "unmounted"
        /\ now < unmountedAt + Linger * LogPeriod
  /\ now' = now + LogPeriod
  /\ UNCHANGED <<phase, seed, trafficData, dirty, trafficTimer, logTimer, flowTimer,
                 resourceTimer, statsTimer, logs, flowData, resources, attackData,
                 countryData, produced, lastFed, lastMerge, expansion, lastLogTick,
                 logGap, unmountedAt, callVars, chartVars>>

Next ==
  \/ Mount
  \/ TrafficTick
  \/ Commit
  \/ LogTick
  \/ FlowTick
  \/ ResourceTick
  \/ StatsTick
  \/ Unmount
  \/ Advance

Spec == Init /\ [][Next]_vars

----------------------------------------------------------------------------
(* One call of generateLogData on arbitrary arguments *)

SynNow == MountTime
SynSampleInputs ==
  {Null} \cup
  {[time |-> t, inbound |-> i, outbound |-> o] :
     t \in {SynNow - SampleSpacing, SynNow}, i \in {0, 3}, o \in {0, 2}}
SynSampleLists ==
  UNION {[1..n -> SynSampleInputs] : n \in 0..MaxSamples}
OldLog(n) ==
  [timestamp |-> SynNow - (n + 1) * SampleSpacing, sourceIP |-> <<10, 0, 0, n>>,
   sourcePort |-> 80, destinationIP |-> <<10, 0, 1, n>>, destinationPort |-> 443,
   protocol |-> "TCP", type |-> TypeNormal, trafficVolume |-> n]
SynHistories ==
  {Null, Some(<<>>), Some(<<OldLog(1)>>), Some(<<OldLog(1), OldLog(2)>>)}
SynStreams == [1..2 -> 0..(RandMax - 1)]

SynInit ==
  /\ synSamples \in SynSampleLists
  /\ synExisting \in SynHistories
  /\ synRnd \in SynStreams
  /\ synResult = <<>>
  /\ synDone = FALSE

Synthesize ==
  /\ ~synDone
  /\ synResult' = generateLogData(synSamples, synExisting, SynNow, synRnd)
  /\ synDone' = TRUE
  /\ UNCHANGED <<synSamples, synExisting, synRnd, dashVars, genVars>>

SynStart == SynInit /\ DashInit /\ seed = 0 /\ GenIdle
SynNext == Synthesize
SynSpec == SynStart /\ [][SynNext]_vars

----------------------------------------------------------------------------
(* One call of generateTrafficData or generateFlowData on arbitrary arguments *)

GenCounts == {Null} \cup {Some(n) : n \in (-1)..MaxCount}
GenTimes == {MountTime, MountTime + LogPeriod}
GenStreams == [1..2 -> 0..(RandMax - 1)]

GenInit ==
  /\ genCount \in GenCounts
  /\ genNow \in GenTimes
  /\ genRnd \in GenStreams
  /\ genResult = <<>>
  /\ genDone = "no"

GenerateTraffic ==
  /\ genDone = "no"
  /\ genResult' = generateTrafficData(CountOrDefault(genCount), genNow, genRnd)
  /\ genDone' = "traffic"
  /\ UNCHANGED <<genCount, genNow, genRnd, dashVars, synVars>>

GenerateFlows ==
  /\ genDone = "no"
  /\ genResult' = generateFlowData(genRnd)
  /\ genDone' = "flows"
  /\ UNCHANGED <<genCount, genNow, genRnd, dashVars, synVars>>

GenStart == GenInit /\ DashInit /\ seed = 0 /\ SynIdle
GenNext == GenerateTraffic \/ GenerateFlows
GenSpec == GenStart /\ [][GenNext]_vars

----------------------------------------------------------------------------
(* Claims *)

WindowLimit == WindowKeep + 1
AnyArmed ==
  trafficTimer.armed \/ logTimer.armed \/ flowTimer.armed \/ resourceTimer.armed
    \/ statsTimer.armed

\* C1: in every reachable state the log history held by LogTable has at most
\* 100 entries.
LogHistoryBounded == Len(logs) <= LogLimit

\* a log tick has cut a merged history of more than 100 entries down to 100
LogHistoryTruncated ==
  /\ lastMerge.at >= 0
  /\ Len(lastMerge.prev) + Len(lastMerge.new) > LogLimit
  /\ Len(logs) = LogLimit

\* C2: in every reachable state the traffic window held by App has at most 30
\* samples, after the update at mount and after any number of 2 s ticks.
TrafficWindowBounded == Len(trafficData) <= WindowLimit

\* more than 30 samples have been produced and the window is full
TrafficWindowFull ==
  /\ Len(produced) > WindowLimit
  /\ Len(trafficData) = WindowLimit

\* C3: after k traffic updates the window is exactly the last min(k, 30)
\* samples produced, in production order (so an append to a full window
\* removes the oldest sample and nothing else).
TrafficWindowFifo ==
  LET k == Len(produced)
      n == Min(k, WindowLimit)
  IN /\ Len(trafficData) = n
     /\ \A i \in 1..n : trafficData[i] = produced[k - n + i]

\* at least two samples have been evicted from a full window
TrafficWindowEvicted ==
  /\ Len(produced) >= WindowLimit + 2
  /\ Len(trafficData) = WindowLimit
  /\ trafficData[1] = produced[Len(produced) - WindowLimit + 1]

\* C4: a log tick that produces n > 0 new entries over the history h leaves
\* the first 100 elements of (new entries, then h): every new entry is kept
\* and what is dropped comes from the tail of h.
LogEvictionDropsOldest ==
  (lastMerge.at >= 0 /\ Len(lastMerge.new) > 0) =>
    LET n == Len(lastMerge.new)
        h == lastMerge.prev
        r == lastMerge.result
    IN /\ Len(r) = Min(LogLimit, n + Len(h))
       /\ n <= Len(r)
       /\ \A i \in 1..n : r[i] = lastMerge.new[i]
       /\ \A i \in (n + 1)..Len(r) : r[i] = h[i - n]

\* a log tick with new entries has dropped entries of the previous history
LogEvictionHappened ==
  /\ lastMerge.at >= 0
  /\ Len(lastMerge.new) > 0
  /\ Len(lastMerge.prev) + Len(lastMerge.new) > LogLimit
  /\ Len(lastMerge.prev) > 0

\* C5: generateLogData(samples, existingLogs) places the new entries before
\* the entries of existingLogs: the existing entries are the tail of the result.
SynNewEntriesFirst ==
  synDone =>
    LET ex == OrEmpty(synExisting)
        n == Len(synResult) - Len(ex)
    IN \A i \in 1..Len(ex) : synResult[n + i] = ex[i]

\* the timestamps the entries of `data` must carry: inbound + outbound times
\* the time of each sample that is not null, in order
RECURSIVE ExpectedStamps(_)
ExpectedStamps(data) ==
  IF data = <<>> THEN <<>>
  ELSE (IF Head(data) = Null THEN <<>>
        ELSE [i \in 1..(Head(data).inbound + Head(data).outbound) |-> Head(data).time])
       \o ExpectedStamps(Tail(data))

\* the entries a call of generateLogData added to existingLogs
SynNewEntries ==
  SubSeq(synResult, Len(OrEmpty(synExisting)) + 1, Len(synResult))

\* C6: generateLogData emits exactly inbound + outbound entries for each
\* sample that is not null, each carrying the time of its sample.
SynEmitsVolumeSum ==
  synDone =>
    /\ Len(synResult) >= Len(OrEmpty(synExisting))
    /\ [i \in 1..Len(SynNewEntries) |-> SynNewEntries[i].timestamp]
         = ExpectedStamps(synSamples)

\* a call on a null element and a sample with inbound 3, outbound 2 emitted 5
SynEmittedFive ==
  /\ synDone
  /\ Len(synSamples) = 2
  /\ synSamples[1] = Null
  /\ synSamples[2] # Null
  /\ synSamples[2].inbound = 3
  /\ synSamples[2].outbound = 2
  /\ Len(SynNewEntries) = 5

\* C7 as claimed: each sample is expanded into log entries once, so the
\* entries merged from it number 0 before its log tick and inbound + outbound
\* after it.
SampleExpandedOnce ==
  \A i \in 1..Len(expansion) :
    /\ expansion[i].feeds <= 1
    /\ expansion[i].entries = expansion[i].feeds * expansion[i].volume

\* C7 as amended: every log tick fed with a sample merges inbound + outbound
\* entries from it, so the total merged from a sample is inbound + outbound
\* times the number of log ticks fed with it.
SampleExpandedPerFeed ==
  \A i \in 1..Len(expansion) :
    expansion[i].entries = expansion[i].feeds * expansion[i].volume

\* a sample with entries to emit has been fed to two log ticks
SampleFedTwice ==
  \E i \in 1..Len(expansion) :
    /\ expansion[i].feeds = 2
    /\ expansion[i].volume > 0
    /\ expansion[i].entries = 2 * expansion[i].volume

\* C8: the log timer's schedule does not depend on the traffic timer:
\* consecutive log ticks are exactly 1 s apart.
LogTicksOneSecondApart == logGap \in {0, LogPeriod}

\* C9: every log tick feeds the synthesizer the last sample of the current
\* traffic window, and nothing when the window is empty.
LogTickFedLatest == lastFed.samples = lastFed.latest

\* C10: after the unmount every timer is cleared and no tick fires: the
\* timers, the traffic window, the log history, the flow set and the metric
\* values never change again.
NoTickAfterUnmount ==
  [][/\ phase' = "unmounted" => ~AnyArmed'
     /\ phase = "unmounted" =>
          UNCHANGED <<trafficData, logs, flowData, resources, attackData, countryData,
                      trafficTimer, logTimer, flowTimer, resourceTimer, statsTimer,
                      produced, lastLogTick>>]_vars

\* the dashboard ran, was unmounted with all its timers armed, and every
\* timer's period has passed since
UnmountedAndLingered ==
  /\ phase = "unmounted"
  /\ unmountedAt >= MountTime + FlowPeriod
  /\ now >= unmountedAt + FlowPeriod
  /\ Len(logs) > 0
  /\ Len(flowData) = FlowCount

\* C11: a call generate(count) at time T returns exactly count samples (none
\* for count <= 0, 30 for an omitted count) whose timestamps are 2000 ms
\* apart, strictly increasing, the last one being T.
GenerateCountSpacedEndingNow ==
  genDone = "traffic" =>
    LET n == IF genCount = Null THEN DefaultCount
             ELSE IF genCount.value <= 0 THEN 0 ELSE genCount.value
    IN /\ Len(genResult) = n
       /\ \A i \in 1..(n - 1) :
            /\ genResult[i].time < genResult[i + 1].time
            /\ genResult[i + 1].time - genResult[i].time = SampleSpacing
       /\ n > 0 => genResult[n].time = genNow

GenerateReturnedTwo ==
  /\ genDone = "traffic"
  /\ genCount = Some(2)
  /\ Len(genResult) = 2
  /\ genResult[2].time = genNow

\* C12: the log history is ordered newest-first: no entry has a timestamp
\* smaller than that of an entry after it (stated on neighbours, which is the
\* same for every pair of positions since >= is transitive).
LogHistoryNewestFirst ==
  \A i \in 1..(Len(logs) - 1) : logs[i].timestamp >= logs[i + 1].timestamp

LogHistorySpansSamples ==
  /\ Len(logs) = LogLimit
  /\ logs[1].timestamp > logs[LogLimit].timestamp
  /\ logs[1].timestamp = lastFed.samples[1].time

\* C13: a flow tick (every 5 s) replaces the flow set wholesale: afterwards the
\* set is exactly the 50 pairs generated by that tick and holds no pair object
\* of the previous set; between flow ticks the set does not change.
IsFlowTick == flowTimer.armed /\ flowTimer'.armed /\ flowTimer' # flowTimer
FlowTickReplacesAll ==
  [][IF IsFlowTick
       THEN /\ now > MountTime /\ (now - MountTime) % FlowPeriod = 0
            /\ Len(flowData') = FlowCount
            /\ \A i \in 1..Len(flowData') :
                 /\ flowData'[i].born = now
                 /\ \A k \in 1..Len(flowData) : flowData'[i] # flowData[k]
            /\ [i \in 1..Len(flowData') |->
                  [start |-> flowData'[i].start, end |-> flowData'[i].end]]
                 = generateFlowData(Stream(seed, FlowSite, now))
       ELSE flowData' = flowData]_vars

FlowSetReplacedTwice ==
  /\ Len(flowData) = FlowCount
  /\ flowData[1].born = MountTime + 2 * FlowPeriod
  /\ flowData[FlowCount].born = MountTime + 2 * FlowPeriod

\* C14: generateFlowData() always returns exactly 50 pairs, and both codes of
\* every pair are among the ten codes KR, US, CN, JP, UK, DE, FR, IN, BR, AU.
FlowsFiftyPairsOfKnownCodes ==
  genDone = "flows" =>
    /\ Len(genResult) = 50
    /\ \A i \in 1..Len(genResult) :
         /\ genResult[i].start \in {"KR", "US", "CN", "JP", "UK", "DE", "FR", "IN", "BR", "AU"}
         /\ genResult[i].end \in {"KR", "US", "CN", "JP", "UK", "DE", "FR", "IN", "BR", "AU"}

FlowsFromFirstToLastCode ==
  /\ genDone = "flows"
  /\ Len(genResult) = FlowCount
  /\ genResult[1].start = "KR"
  /\ genResult[1].end = "AU"

\* C15: synthesizing from no samples returns the existing history as it is
\* (same entries, same order, nothing added or removed), and an absent
\* history counts as the empty one.
SynEmptySamplesKeepsHistory ==
  (synDone /\ synSamples = <<>>) =>
    IF synExisting = Null THEN synResult = <<>> ELSE synResult = synExisting.value

SynEmptySamplesKeptTwo ==
  /\ synDone
  /\ synSamples = <<>>
  /\ synExisting = Some(<<OldLog(1), OldLog(2)>>)
  /\ synResult = <<OldLog(1), OldLog(2)>>

\* C16: the class of a synthesized entry is decided by one draw r in [0, 1):
\* r < 0.6 gives Normal, 0.6 <= r < 0.9 a Malicious subtype of the 9-item
\* catalog, r >= 0.9 Novel-pattern; each draw gives exactly one class, and
\* every entry has one of these 11 values.  r is the call's first draw, which
\* decides the first new entry.
MaliciousCatalog == {maliciousTypes[k] : k \in 1..Len(maliciousTypes)}
SynTypeByThresholds ==
  (synDone /\ Len(SynNewEntries) > 0) =>
    LET r == synRnd[1]
        type == SynNewEntries[1].type
    IN /\ Cardinality(MaliciousCatalog) = 9
       /\ TypeNormal \notin MaliciousCatalog /\ TypeNew \notin MaliciousCatalog
       /\ TypeNormal # TypeNew
       /\ type = TypeNormal <=> r * 10 < 6 * RandMax
       /\ type \in MaliciousCatalog <=> (6 * RandMax <= r * 10 /\ r * 10 < 9 * RandMax)
       /\ type = TypeNew <=> 9 * RandMax <= r * 10
       /\ \A i \in 1..Len(SynNewEntries) :
            SynNewEntries[i].type \in {TypeNormal, TypeNew} \cup MaliciousCatalog

SynDrewMaliciousAtThreshold ==
  /\ synDone
  /\ Len(SynNewEntries) > 0
  /\ synRnd[1] * 10 = 6 * RandMax
  /\ SynNewEntries[1].type = maliciousTypes[Len(maliciousTypes)]

\* C17: every sample of the traffic window has integer inbound and outbound
\* volumes in [0, 30), so that one log tick never produces more than 58 new
\* entries.
WindowVolumesBelowThirty ==
  /\ \A i \in 1..Len(trafficData) :
       /\ trafficData[i].inbound \in 0..29
       /\ trafficData[i].outbound \in 0..29
  /\ Len(lastMerge.new) <= 58

LargestVolumesExpanded ==
  /\ lastMerge.at >= 0
  /\ lastFed.samples[1].inbound = RandInt(RandMax - 1, VolumeRange)
  /\ lastFed.samples[1].outbound = RandInt(RandMax - 1, VolumeRange)
  /\ Len(lastMerge.new) = 2 * RandInt(RandMax - 1, VolumeRange)

\* C18: every resource metric stays within [0, maxValue] in every state (the
\* fan metric, which starts at its maximum, included), and a resource tick
\* changes only metric values: it leaves each metric's name, maxValue and
\* unit, and the traffic window, the log history and the flow set unchanged.
ResourcesInRange ==
  \A i \in 1..Len(resources) :
    0 <= resources[i].value /\ resources[i].value <= resources[i].maxValue * RandMax
IsResourceTick ==
  resourceTimer.armed /\ resourceTimer'.armed /\ resourceTimer' # resourceTimer
ResourceTickOnlyMovesValuesInRange ==
  [][/\ ResourcesInRange /\ ResourcesInRange'
     /\ IsResourceTick =>
          /\ Len(resources') = Len(resources)
          /\ \A i \in 1..Len(resources) :
               /\ resources'[i].name = resources[i].name
               /\ resources'[i].maxValue = resources[i].maxValue
               /\ resources'[i].unit = resources[i].unit
          /\ UNCHANGED <<trafficData, logs, flowData>>]_vars

ResourceClampedAtZero ==
  /\ \E i \in 1..Len(resources) : resources[i].value = 0
  /\ resources[3].name = "fan" /\ resources[3].value < resources[3].maxValue * RandMax
  /\ Len(trafficData) > 0 /\ Len(logs) > 0 /\ Len(flowData) > 0

\* C19: a null or missing element among the samples is skipped without
\* raising: it contributes no entry, and the result is what the call returns
\* for the same samples with the null elements left out.
SynNullSampleSkipped ==
  (synDone /\ \E n \in 1..Len(synSamples) : synSamples[n] = Null) =>
    LET present == SelectSeq(synSamples, LAMBDA s : s # Null)
    IN /\ synResult = generateLogData(present, synExisting, SynNow, synRnd)
       /\ (present = <<>>) => Len(SynNewEntries) = 0

SynNullBeforeSample ==
  /\ synDone
  /\ Len(synSamples) = 2
  /\ synSamples[1] = Null
  /\ synSamples[2] # Null
  /\ Len(SynNewEntries) = 5

\* C20: the sample a traffic update occurring at time T appends to the
\* traffic window carries timestamp T, not an older instant.
NewSampleStampedNow ==
  [][Len(produced') > Len(produced) =>
       /\ trafficData'[Len(trafficData')] = produced'[Len(produced')]
       /\ produced'[Len(produced')].time = now]_vars

\* C21: a chart instance is created on the first non-empty traffic window, is
\* updated in place (same instance, new labels and data) on every later change
\* of the window, and is destroyed only when the component unmounts; no canvas
\* ever has more than one live chart instance.
OneLiveChartPerCanvas ==
  \A canvas \in {"inbound", "outbound"} :
    Cardinality({c \in liveCharts : c.canvas = canvas}) <= 1
ChartKeptWhileMounted(chartInstance, chartInstanceNext) ==
  (chartInstance # Null /\ phase' = "mounted") =>
    (chartInstanceNext # Null /\ chartInstanceNext.id = chartInstance.id)
ChartShowsWindow(chartInstance, data) ==
  /\ chartInstance # Null
  /\ chartInstance.labels = ChartLabels(trafficData)
  /\ chartInstance.data = data
ChartUpdatedInPlaceUntilUnmount ==
  [][/\ (phase' = "mounted" /\ ~dirty' /\ Len(trafficData') > 0) =>
          /\ ChartShowsWindow(inboundChartInstance, ValidInboundData(trafficData))'
          /\ ChartShowsWindow(outboundChartInstance, ValidOutboundData(trafficData))'
     /\ ChartKeptWhileMounted(inboundChartInstance, inboundChartInstance')
     /\ ChartKeptWhileMounted(outboundChartInstance, outboundChartInstance')
     /\ OneLiveChartPerCanvas'
     /\ phase' = "unmounted" => liveCharts' = {}]_vars

\* C22: the log table colours every entry the synthesizer can produce by its
\* class: Normal green, every Malicious subtype red, Novel-pattern yellow; the
\* grey fallback is never used for a synthesized entry.
SynEntriesColouredByClass ==
  synDone =>
    \A i \in 1..Len(SynNewEntries) :
      LET type == SynNewEntries[i].type
          colour == getTypeColor(type)
      IN /\ type = TypeNormal => colour = "text-green-600"
         /\ type \in MaliciousCatalog => colour = "text-red-600"
         /\ type = TypeNew => colour = "text-yellow-600"
         /\ colour # "text-gray-600"

\* the class of an entry, read off the synthesizer's 11 type values
ClassOf(log) ==
  IF log.type = TypeNormal THEN "normal"
  ELSE IF log.type \in MaliciousCatalog THEN "malicious"
  ELSE IF log.type = TypeNew THEN "new"
  ELSE "none"

\* the entries of the history that have class `class`, in the history's order
OfClass(class) == SelectSeq(logs, LAMBDA log : ClassOf(log) = class)

\* C23: the filters partition the history: in every state each entry is
\* selected by exactly one of the filters normal, malicious and new, the
\* filter all selects every entry, and the three filtered lists together hold
\* each entry exactly once, in the order of the history.
FiltersPartitionHistory ==
  /\ getFilteredLogs(logs, "all") = logs
  /\ \A i \in 1..Len(logs) :
       /\ ClassOf(logs[i]) # "none"
       /\ {f \in {"normal", "malicious", "new"} :
             Len(getFilteredLogs(<<logs[i]>>, f)) = 1} = {ClassOf(logs[i])}
  /\ \A f \in {"normal", "malicious", "new"} : getFilteredLogs(logs, f) = OfClass(f)
  /\ Len(getFilteredLogs(logs, "normal")) + Len(getFilteredLogs(logs, "malicious"))
       + Len(getFilteredLogs(logs, "new")) = Len(logs)

HistoryHasEveryClass ==
  /\ Len(logs) = LogLimit
  /\ Len(getFilteredLogs(logs, "normal")) > 0
  /\ Len(getFilteredLogs(logs, "malicious")) > 0
  /\ Len(getFilteredLogs(logs, "new")) > 0

\* C24: no traffic sample is skipped by the log pipeline: a sample that became
\* the most recent one of the window has been passed to the synthesizer by at
\* least one log tick when the next sample supersedes it.
SupersededSampleWasFed ==
  [][(Len(produced') > Len(produced) /\ Len(trafficData) > 0) =>
       \E i \in 1..Len(expansion) :
         /\ expansion[i].time = trafficData[Len(trafficData)].time
         /\ expansion[i].feeds >= 1]_vars

SampleSupersededAfterFeed ==
  /\ dirty
  /\ Len(produced) > WindowLimit
  /\ lastFed.samples = <<produced[Len(produced) - 1]>>
  /\ trafficData[Len(trafficData)] = produced[Len(produced)]

\* C25: a log tick that produces no new entries leaves the log history
\* unchanged (nothing added, removed or reordered); this is so when the
\* traffic window is empty and when the most recent sample has
\* inbound = outbound = 0.  The first conjunct is about the ticks that occur,
\* the second about a tick of the callback over an empty window, which the
\* re-render after the first traffic update keeps from occurring.
IsLogTick == lastFed'.at # lastFed.at
FedNothingToExpand(fed) ==
  Len(fed) = 0 \/ (fed[1].inbound = 0 /\ fed[1].outbound = 0)
EmptyLogTickKeepsHistory ==
  [][/\ (IsLogTick /\ FedNothingToExpand(lastFed'.samples)) =>
          (lastMerge'.new = <<>> /\ logs' = logs)
     /\ LET newLogs == generateLogData(FedSamples(<<>>), Some(<<>>), now,
                                       Stream(seed, LogSite, now))
        IN newLogs = <<>> /\ LogTableUpdater(logs, newLogs) = logs]_vars

ZeroVolumeTickKeptHistory ==
  /\ lastMerge.at = now
  /\ Len(lastFed.samples) = 1
  /\ lastFed.samples[1].inbound = 0 /\ lastFed.samples[1].outbound = 0
  /\ lastMerge.new = <<>>
  /\ Len(lastMerge.prev) > 0
  /\ logs = lastMerge.prev

====
